---- MODULE Spec2Model ----
(***************************************************************************)
(* A model of src/ephemeris/ephemeris_log.py: the logging facade (Logger), *)
(* its two backends (LoggingLogger, SpinningLogger), the console handler   *)
(* ProgressConsoleHandler and the setup functions.                         *)
(*                                                                         *)
(* A text is a sequence of tokens.  A token is a piece of literal text, a  *)
(* conversion specifier ("%s"), or a line break.  Python's % operator and  *)
(* the logging module's record formatting are modelled by what they do to  *)
(* the tokens.                                                             *)
(***************************************************************************)
EXTENDS Naturals, Sequences, FiniteSets, TLC

VARIABLES
    \* ---- process-wide logging state, and the facade objects
    logger,        \* the logger logging.getLogger(name) returns (a LoggingLogger)
    spinner,       \* the SpinningLogger the last 'spinning' setup returned
    facade,        \* class of the object the last setup_global_logger returned
    files,         \* the file system: path -> the records written to the file
    stderr,        \* sys.stderr, the stream of the handlers setup creates
    stdout,        \* the terminal lines the spinner widget has written
    ntmp,          \* temporary files created so far
    \* ---- history of the calls made (read by the properties only)
    last,          \* the most recent call: its inputs, outcome and pre-state
    lgLife,        \* last lifecycle call that returned, on the LoggingLogger
    spLife,        \* last lifecycle call that returned, on the SpinningLogger
    setups,        \* arguments of the setup_global_logger calls, in order
    nsteps,        \* calls made
    \* ---- one ProgressConsoleHandler driven record by record
    on_same_line,  \* ProgressConsoleHandler.on_same_line
    stream,        \* the handler's stream
    record,        \* the record of the most recent emit call
    pre,           \* stream and on_same_line before the most recent emit call
    marks,         \* same_line flag of each record written so far, in order
    failed,        \* some emit call so far ended in handleError
    blank,         \* some record written so far had an empty message
    nemit          \* emit calls made

vars == <<logger, spinner, facade, files, stderr, stdout, ntmp, last, lgLife,
          spLife, setups, nsteps, on_same_line, stream, record, pre, marks,
          failed, blank, nemit>>

facadeVars == <<logger, spinner, facade, files, stderr, stdout, ntmp, last,
                lgLife, spLife, setups, nsteps>>

handlerVars == <<on_same_line, stream, record, pre, marks, failed, blank,
                 nemit>>

----------------------------------------------------------------------------
(* Bounds of the model. *)

\* calls made on the facade and the setup function in one behaviour
MaxSteps == 3

\* emit calls made on the handler in one behaviour
MaxEmits == 3

----------------------------------------------------------------------------
(* Texts. *)

CRLF == "\r\n"

LF == "\n"

PercentS == "%s"

LineBreaks == {CRLF, LF}

\* number of conversion specifiers of a text
RECURSIVE Placeholders(_)
Placeholders(t) ==
    IF t = <<>> THEN 0
    ELSE (IF Head(t) = PercentS THEN 1 ELSE 0) + Placeholders(Tail(t))

\* the text with its i-th conversion specifier replaced by the i-th argument
RECURSIVE Interpolate(_, _)
Interpolate(t, args) ==
    IF t = <<>> THEN <<>>
    ELSE IF Head(t) = PercentS /\ args # <<>>
         THEN <<Head(args)>> \o Interpolate(Tail(t), Tail(args))
         ELSE <<Head(t)>> \o Interpolate(Tail(t), args)

\* msg % args: a TypeError unless the tuple has one argument per specifier
PyFormat(msg, args) ==
    IF Placeholders(msg) = Len(args)
    THEN [ok |-> TRUE, text |-> Interpolate(msg, args)]
    ELSE [ok |-> FALSE, text |-> <<>>]

\* LogRecord.getMessage, which a handler's format calls: the arguments are
\* merged only when there are some
GetMessage(rec) ==
    IF rec.args # <<>> THEN PyFormat(rec.msg, rec.args)
    ELSE [ok |-> TRUE, text |-> rec.msg]

\* what Handler.handleError prints on sys.stderr (logging.raiseExceptions)
HandleErrorOutput == <<"--- Logging error ---", LF>>

----------------------------------------------------------------------------
(* ProgressConsoleHandler. *)

\* a plausible slip: the line break before is written whenever the handler
\* was left on the same line, a same_line record included
emit_always_breaks(osl, strm, rec) ==
    LET m == GetMessage(rec) IN
    IF ~m.ok
    THEN [on_same_line |-> osl, stream |-> strm \o HandleErrorOutput,
          wrote |-> FALSE]
    ELSE LET s1 == IF osl THEN Append(strm, CRLF) ELSE strm
             s2 == s1 \o m.text
         IN  IF rec.same_line
             THEN [on_same_line |-> TRUE, stream |-> Append(s2, "."),
                   wrote |-> TRUE]
             ELSE [on_same_line |-> FALSE, stream |-> Append(s2, CRLF),
                   wrote |-> TRUE]

\* a plausible slip: on_same_line is not reset by a record of its own line
emit_keeps_flag(osl, strm, rec) ==
    LET m == GetMessage(rec) IN
    IF ~m.ok
    THEN [on_same_line |-> osl, stream |-> strm \o HandleErrorOutput,
          wrote |-> FALSE]
    ELSE LET s1 == IF osl /\ ~rec.same_line THEN Append(strm, CRLF) ELSE strm
             s2 == s1 \o m.text
         IN  IF rec.same_line
             THEN [on_same_line |-> TRUE, stream |-> Append(s2, "."),
                   wrote |-> TRUE]
             ELSE [on_same_line |-> osl, stream |-> Append(s2, CRLF),
                   wrote |-> TRUE]

\* emit(record) on a handler whose on_same_line is osl and whose stream holds
\* strm: the handler's new on_same_line, the stream, and whether the record
\* was written (it is not when format raises and handleError takes over)
emit(osl, strm, rec) ==
    LET m == GetMessage(rec) IN
    IF ~m.ok
    THEN [on_same_line |-> osl, stream |-> strm \o HandleErrorOutput,
          wrote |-> FALSE]
    ELSE LET s1 == IF osl /\ ~rec.same_line THEN Append(strm, CRLF) ELSE strm
             s2 == s1 \o m.text
         IN  IF rec.same_line
             THEN [on_same_line |-> TRUE, stream |-> Append(s2, "."),
                   wrote |-> TRUE]
             ELSE [on_same_line |-> FALSE, stream |-> Append(s2, CRLF),
                   wrote |-> TRUE]

\* the records the handler is given: a message (the empty one included), its
\* arguments, and whether the record carries the same_line attribute
EmitMsgs == {<<>>, <<"a">>, <<"b", PercentS>>}

EmitArgs == {<<>>, <<"x">>}

NoRecord == [msg |-> <<>>, args |-> <<>>, same_line |-> FALSE, none |-> TRUE]

HandlerInit ==
    /\ on_same_line = FALSE
    /\ stream = <<>>
    /\ record = NoRecord
    /\ pre = [stream |-> <<>>, on_same_line |-> FALSE, wrote |-> FALSE]
    /\ marks = <<>>
    /\ failed = FALSE
    /\ blank = FALSE
    /\ nemit = 0

Emit ==
    /\ nemit < MaxEmits
    /\ \E msg \in EmitMsgs, args \in EmitArgs, same_line \in BOOLEAN :
         LET rec == [msg |-> msg, args |-> args, same_line |-> same_line,
                     none |-> FALSE]
             r == emit(on_same_line, stream, rec)
         IN  /\ on_same_line' = r.on_same_line
             /\ stream' = r.stream
             /\ record' = rec
             /\ pre' = [stream |-> stream, on_same_line |-> on_same_line,
                        wrote |-> r.wrote]
             /\ marks' = IF r.wrote THEN Append(marks, same_line) ELSE marks
             /\ failed' = (failed \/ ~r.wrote)
             /\ blank' = (blank \/ (r.wrote /\ GetMessage(rec).text = <<>>))
             /\ nemit' = nemit + 1
    /\ UNCHANGED facadeVars

----------------------------------------------------------------------------
(* The logging module's dispatch of a record to a logger's handlers. *)

ProgressHandler == [kind |-> "ProgressConsoleHandler", path |-> "",
                    on_same_line |-> FALSE]

FileHandler(path) == [kind |-> "FileHandler", path |-> path,
                      on_same_line |-> FALSE]

\* opening a FileHandler creates the file when it does not exist (mode 'a')
OpenFile(fs, path) == IF path \in DOMAIN fs THEN fs ELSE fs @@ (path :> <<>>)

\* what a logger's handlers have done with a record so far: the handlers
\* that have handled it, the file system, sys.stderr, and the handlers that
\* ended in handleError
Dispatch(fs, err) ==
    [handlers |-> <<>>, files |-> fs, stderr |-> err, errors |-> 0]

\* a ProgressConsoleHandler has emitted the record on sys.stderr, with result r
ProgressResult(h, acc, r) ==
    [handlers |-> Append(acc.handlers,
                         [h EXCEPT !.on_same_line = r.on_same_line]),
     files |-> acc.files,
     stderr |-> r.stream,
     errors |-> acc.errors + (IF r.wrote THEN 0 ELSE 1)]

\* a FileHandler (StreamHandler.emit) appends the formatted message m to its
\* file; a record whose formatting raises ends in handleError instead
FileResult(h, acc, m) ==
    IF m.ok
    THEN [acc EXCEPT !.handlers = Append(@, h),
                     !.files[h.path] = Append(@, m.text)]
    ELSE [acc EXCEPT !.handlers = Append(@, h),
                     !.stderr = @ \o HandleErrorOutput,
                     !.errors = @ + 1]

\* one handler handling a record
HandleOne(h, acc, rec) ==
    IF h.kind = "ProgressConsoleHandler"
    THEN ProgressResult(h, acc, emit(h.on_same_line, acc.stderr, rec))
    ELSE FileResult(h, acc, GetMessage(rec))

\* Logger.callHandlers: every handler of the logger, in the order attached
RECURSIVE callHandlers(_, _, _)
callHandlers(hs, acc, rec) ==
    IF hs = <<>> THEN acc
    ELSE callHandlers(Tail(hs), HandleOne(Head(hs), acc, rec), rec)

\* logging.DEBUG, INFO, WARNING, ERROR
LevelNo(level) ==
    CASE level = "DEBUG" -> 10
      [] level = "INFO" -> 20
      [] level = "WARNING" -> 30
      [] level = "ERROR" -> 40

\* Logger.log(level, msg, *args) on the named logger, whose level setup sets
\* to DEBUG: the record goes to the handlers when the level is enabled
Logger_log(lg, fs, err, level, msg, args) ==
    IF LevelNo(level) >= LevelNo(lg.level)
    THEN callHandlers(lg.handlers, Dispatch(fs, err),
                      [msg |-> msg, args |-> args, same_line |-> FALSE,
                       none |-> FALSE])
    ELSE [Dispatch(fs, err) EXCEPT !.handlers = lg.handlers]

----------------------------------------------------------------------------
(* The facade: Logger, LoggingLogger, SpinningLogger. *)

TAB == "\t"

\* _msg_prefix of the two backends
LoggingPrefix == TAB

SpinningPrefix == "> "

\* Logger._getmsg(msg, *args) of an object whose _spinning is spinning and
\* whose _msg_prefix is prefix: msg += prefix + msg, then msg % args
getmsg(spinning, prefix, msg, args) ==
    PyFormat(IF spinning THEN msg \o <<prefix>> \o msg ELSE msg, args)

\* LoggingLogger._mlog(level, msg, *args) on the named logger lg:
\* self.log(level, self._getmsg(msg), *args).  _getmsg is given no arguments,
\* so a message with a conversion specifier raises TypeError there; the
\* arguments go to the record, and a handler that cannot merge them reports
\* a logging error.
LoggingLogger_mlog(lg, fs, err, level, msg, args) ==
    LET g == getmsg(lg.spinning, LoggingPrefix, msg, <<>>)
    IN  IF ~g.ok
        THEN [outcome |-> "TypeError", text |-> <<>>, handlers |-> lg.handlers,
              files |-> fs, stderr |-> err]
        ELSE LET r == Logger_log(lg, fs, err, level, g.text, args)
                 m == GetMessage([msg |-> g.text, args |-> args])
             IN  [outcome |-> IF r.errors > 0 THEN "LoggingError" ELSE "ok",
                  text |-> m.text, handlers |-> r.handlers,
                  files |-> r.files, stderr |-> r.stderr]

\* SpinningLogger._mlog(level, msg, *args) on the spinner sp with file
\* logger lg: the message goes to the terminal (Yaspin.write) and to the
\* file logger
SpinningLogger_mlog(sp, lg, fs, err, out, level, msg, args) ==
    LET g == getmsg(sp.spinning, SpinningPrefix, msg, args)
    IN  IF ~g.ok
        THEN [outcome |-> "TypeError", text |-> <<>>, handlers |-> lg.handlers,
              files |-> fs, stderr |-> err, stdout |-> out]
        ELSE LET r == Logger_log(lg, fs, err, level, g.text, <<>>)
             IN  [outcome |-> "ok", text |-> g.text, handlers |-> r.handlers,
                  files |-> r.files, stderr |-> r.stderr,
                  stdout |-> Append(out, g.text)]

\* "Storing log file in: {0}".format(log_file)
Storing(path) == <<"Storing log file in: ", path>>

\* the name NamedTemporaryFile(prefix="ephemeris_") gives its n-th file
TempName(n) == <<"ephemeris_1", "ephemeris_2", "ephemeris_3", "ephemeris_4",
                 "ephemeris_5", "ephemeris_6", "ephemeris_7",
                 "ephemeris_8">>[n]

None == "<None>"

\* a plausible slip: only None, not the empty string, gets a temporary file
make_log_file_none_only(log_file, fs, n) ==
    IF log_file = None
    THEN [path |-> TempName(n + 1), ntmp |-> n + 1,
          files |-> OpenFile(fs, TempName(n + 1))]
    ELSE [path |-> log_file, ntmp |-> n, files |-> fs]

\* make_log_file(log_file): the path, the file system and the temporary
\* files made.  A temporary file is created, and kept (delete=False).
make_log_file(log_file, fs, n) ==
    IF log_file \in {None, ""}
    THEN [path |-> TempName(n + 1), ntmp |-> n + 1,
          files |-> OpenFile(fs, TempName(n + 1))]
    ELSE [path |-> log_file, ntmp |-> n, files |-> fs]

\* the named logger as logging.getLogger(name) returns it: created on the
\* first call (LoggingLogger.__init__, _init: _spinning = False)
getLogger(lg) ==
    IF lg.exists THEN lg
    ELSE [exists |-> TRUE, spinning |-> FALSE, level |-> "WARNING",
          handlers |-> <<>>]

\* the base-class lifecycle operations (Logger.start/ok/skip/fail): the new
\* value of _spinning
Logger_start(spinning) == TRUE

\* a plausible slip: ok forgets to clear the flag
Logger_ok_keeps(spinning) == spinning

Logger_ok(spinning) == FALSE

\* (no backend reaches Logger.skip: LoggingLogger.skip is LoggingLogger.ok,
\* and SpinningLogger.skip calls Yaspin.ok)
Logger_skip(spinning) == FALSE

Logger_fail(spinning) == FALSE

\* the terminal symbols of the spinner's ok, skip and fail
CheckMark == "(check mark)"

Dash == "-"

Cross == "(cross)"

\* Yaspin.start(*args, **kwargs), reached by super(SpinningLogger, self)
\* .start: it takes no argument (TypeError otherwise), starts the spinner,
\* and does not call on to Logger.start, which follows Yaspin in the bases
Yaspin_start(sp, args) ==
    IF args # <<>> THEN [ok |-> FALSE, sp |-> sp]
    ELSE [ok |-> TRUE, sp |-> [sp EXCEPT !.active = TRUE]]

\* Yaspin.ok(symbol) and Yaspin.fail(symbol): the spinner stops and its line
\* is frozen on the terminal as "symbol text"; neither calls on to Logger
Yaspin_freeze(sp, out, symbol) ==
    [sp |-> [sp EXCEPT !.active = FALSE],
     stdout |-> Append(out, <<symbol, " ">> \o sp.text)]

\* SpinningLogger.__append(kwargs)
append_text(sp, append) ==
    IF append = None THEN sp
    ELSE [sp EXCEPT !.text = @ \o <<" ", append>>]

----------------------------------------------------------------------------
(* The state machine of the facade. *)

\* the inputs of the calls
Msgs == {<<"m">>, <<"m ", PercentS>>}

Args == {<<>>, <<"x">>}

Appends == {None, "a"}

LogFileArgs == {None, "", "f1"}

BackendArgs == {"logging", "spinning", "other"}

NoFiles == [p \in {} |-> <<>>]

NoCall ==
    [op |-> "none", cls |-> "none", level |-> "", msg |-> <<>>, args |-> <<>>,
     append |-> None, log_file |-> None, backend |-> "", outcome |-> "ok",
     flag |-> FALSE, text |-> <<>>, path |-> "", files |-> NoFiles,
     stderr |-> <<>>, stdout |-> <<>>, handlers |-> <<>>]

\* a call record: the operation, the class it is called on, and the state
\* before it
Call(op, cls) ==
    [NoCall EXCEPT !.op = op, !.cls = cls, !.files = files,
                   !.stderr = stderr, !.stdout = stdout,
                   !.handlers = logger.handlers,
                   !.flag = IF cls = "SpinningLogger" THEN spinner.spinning
                            ELSE logger.spinning]

FacadeInit ==
    /\ logger = [exists |-> FALSE, spinning |-> FALSE, level |-> "WARNING",
                 handlers |-> <<>>]
    /\ spinner = [exists |-> FALSE, spinning |-> FALSE, text |-> <<>>,
                  color |-> "", active |-> FALSE, path |-> ""]
    /\ facade = "none"
    /\ files = NoFiles
    /\ stderr = <<>>
    /\ stdout = <<>>
    /\ ntmp = 0
    /\ last = NoCall
    /\ lgLife = "none"
    /\ spLife = "none"
    /\ setups = <<>>
    /\ nsteps = 0

\* SpinningLogger(name=name, log_file=path): __init__ and __init_file_logger
SpinningLogger_init(mk, call) ==
    LET lg0 == getLogger(logger)
        lg1 == [lg0 EXCEPT !.level = "DEBUG",
                           !.handlers = <<FileHandler(mk.path)>>]
        fs1 == OpenFile(mk.files, mk.path)
        sp0 == [exists |-> TRUE, spinning |-> FALSE, text |-> <<>>,
                color |-> "", active |-> FALSE, path |-> mk.path]
        r == SpinningLogger_mlog(sp0, lg1, fs1, stderr, stdout, "INFO",
                                 Storing(mk.path), <<>>)
    IN  /\ logger' = [lg1 EXCEPT !.handlers = r.handlers]
        /\ spinner' = sp0
        /\ facade' = "SpinningLogger"
        /\ files' = r.files
        /\ stderr' = r.stderr
        /\ stdout' = r.stdout
        /\ spLife' = "none"
        /\ lgLife' = lgLife
        /\ last' = [call EXCEPT !.cls = "SpinningLogger", !.flag = FALSE,
                                !.outcome = r.outcome, !.text = r.text]

\* setup_global_logging_logger(name, log_file=path)
setup_global_logging_logger(mk, call) ==
    LET lg0 == getLogger(logger)
        lg1 == [lg0 EXCEPT !.level = "DEBUG",
                           !.handlers = @ \o <<ProgressHandler>>]
        fs1 == OpenFile(mk.files, mk.path)
        lg2 == [lg1 EXCEPT !.handlers = @ \o <<FileHandler(mk.path)>>]
        r == LoggingLogger_mlog(lg2, fs1, stderr, "INFO", Storing(mk.path),
                                <<>>)
    IN  /\ logger' = [lg2 EXCEPT !.handlers = r.handlers]
        /\ spinner' = spinner
        /\ facade' = "LoggingLogger"
        /\ files' = r.files
        /\ stderr' = r.stderr
        /\ stdout' = stdout
        /\ spLife' = spLife
        /\ lgLife' = lgLife
        /\ last' = [call EXCEPT !.cls = "LoggingLogger",
                                !.flag = lg0.spinning,
                                !.outcome = r.outcome, !.text = r.text]

\* setup_global_logger(name, log_file, logger)
setup_global_logger ==
    /\ nsteps < MaxSteps
    /\ \E log_file \in LogFileArgs, backend \in BackendArgs :
         LET mk == make_log_file(log_file, files, ntmp)
             call == [Call("setup", "none") EXCEPT !.log_file = log_file,
                                                    !.backend = backend,
                                                    !.path = mk.path]
         IN  /\ IF backend = "spinning"
                THEN SpinningLogger_init(mk, call)
                ELSE setup_global_logging_logger(mk, call)
             /\ ntmp' = mk.ntmp
             /\ setups' = Append(setups, [log_file |-> log_file,
                                          backend |-> backend])
    /\ nsteps' = nsteps + 1
    /\ UNCHANGED handlerVars

\* a call that raised: nothing but the history changes
Raised(call) ==
    /\ last' = [call EXCEPT !.outcome = "TypeError"]
    /\ UNCHANGED <<logger, spinner, facade, files, stderr, stdout, lgLife,
                   spLife>>

\* debug/info/warning/error(msg, *args) on the LoggingLogger
LoggingLogger_leveled(op, level, msg, args) ==
    LET call == [Call(op, "LoggingLogger") EXCEPT !.level = level,
                                                  !.msg = msg, !.args = args]
        r == LoggingLogger_mlog(logger, files, stderr, level, msg, args)
    IN  /\ logger' = [logger EXCEPT !.handlers = r.handlers]
        /\ files' = r.files
        /\ stderr' = r.stderr
        /\ last' = [call EXCEPT !.outcome = r.outcome, !.text = r.text]
        /\ UNCHANGED <<spinner, facade, stdout, lgLife, spLife>>

\* debug/info/warning/error(msg, *args) on the SpinningLogger
SpinningLogger_leveled(op, level, msg, args) ==
    LET call == [Call(op, "SpinningLogger") EXCEPT !.level = level,
                                                   !.msg = msg, !.args = args]
        r == SpinningLogger_mlog(spinner, logger, files, stderr, stdout,
                                 level, msg, args)
    IN  /\ logger' = [logger EXCEPT !.handlers = r.handlers]
        /\ files' = r.files
        /\ stderr' = r.stderr
        /\ stdout' = r.stdout
        /\ last' = [call EXCEPT !.outcome = r.outcome, !.text = r.text]
        /\ UNCHANGED <<spinner, facade, lgLife, spLife>>

\* the partials Logger._init binds: self._mlog with the level
mlog(op, level) ==
    /\ nsteps < MaxSteps
    /\ facade # "none"
    /\ \E msg \in Msgs, args \in Args :
         IF facade = "LoggingLogger"
         THEN LoggingLogger_leveled(op, level, msg, args)
         ELSE SpinningLogger_leveled(op, level, msg, args)
    /\ nsteps' = nsteps + 1
    /\ UNCHANGED <<ntmp, setups>>
    /\ UNCHANGED handlerVars

debug == mlog("debug", "DEBUG")

info == mlog("info", "INFO")

warning == mlog("warning", "WARNING")

error == mlog("error", "ERROR")

\* LoggingLogger.start/ok/fail(msg, *args): self.log(level, msg % args), then
\* the base class's operation sets the flag to flag
LoggingLogger_lifecycle(op, level, flag, msg, args) ==
    LET call == [Call(op, "LoggingLogger") EXCEPT !.level = level,
                                                  !.msg = msg, !.args = args]
        f == PyFormat(msg, args)
        r == Logger_log(logger, files, stderr, level, f.text, <<>>)
    IN  IF ~f.ok THEN Raised(call)
        ELSE /\ logger' = [logger EXCEPT !.handlers = r.handlers,
                                         !.spinning = flag]
             /\ files' = r.files
             /\ stderr' = r.stderr
             /\ lgLife' = op
             /\ last' = [call EXCEPT !.text = f.text]
             /\ UNCHANGED <<spinner, facade, stdout, spLife>>

LoggingLogger_start(msg, args) ==
    LoggingLogger_lifecycle("start", "DEBUG", Logger_start(logger.spinning),
                            msg, args)

LoggingLogger_ok(op, msg, args) ==
    LoggingLogger_lifecycle(op, "DEBUG", Logger_ok(logger.spinning), msg, args)

LoggingLogger_fail(msg, args) ==
    LoggingLogger_lifecycle("fail", "ERROR", Logger_fail(logger.spinning),
                            msg, args)

\* SpinningLogger.start(msg, *args)
SpinningLogger_start(msg, args) ==
    LET call == [Call("start", "SpinningLogger") EXCEPT !.msg = msg,
                                                        !.args = args]
        sp1 == [spinner EXCEPT !.text = msg, !.color = "cyan"]
        y == Yaspin_start(sp1, args)
        r == LoggingLogger_mlog(logger, files, stderr, "INFO", y.sp.text, <<>>)
    IN  IF ~y.ok
        THEN /\ spinner' = sp1
             /\ last' = [call EXCEPT !.outcome = "TypeError"]
             /\ UNCHANGED <<logger, facade, files, stderr, stdout, lgLife,
                            spLife>>
        ELSE /\ spinner' = y.sp
             /\ logger' = [logger EXCEPT !.handlers = r.handlers]
             /\ files' = r.files
             /\ stderr' = r.stderr
             /\ spLife' = IF r.outcome = "ok" THEN "start" ELSE spLife
             /\ last' = [call EXCEPT !.outcome = r.outcome, !.text = r.text]
             /\ UNCHANGED <<facade, stdout, lgLife>>

\* SpinningLogger.ok/skip/fail(**kwargs): the spinner is frozen with the
\* symbol, and "symbol text" goes to the file logger
SpinningLogger_end(op, color, symbol, append) ==
    LET call == [Call(op, "SpinningLogger") EXCEPT !.append = append]
        sp1 == [append_text(spinner, append) EXCEPT !.color = color]
        y == Yaspin_freeze(sp1, stdout, symbol)
        r == LoggingLogger_mlog(logger, files, stderr, "INFO",
                                <<symbol, " ">> \o y.sp.text, <<>>)
    IN  /\ spinner' = y.sp
        /\ stdout' = y.stdout
        /\ logger' = [logger EXCEPT !.handlers = r.handlers]
        /\ files' = r.files
        /\ stderr' = r.stderr
        /\ spLife' = IF r.outcome = "ok" THEN op ELSE spLife
        /\ last' = [call EXCEPT !.outcome = r.outcome, !.text = r.text]
        /\ UNCHANGED <<facade, lgLife>>

start ==
    /\ nsteps < MaxSteps
    /\ facade # "none"
    /\ \E msg \in Msgs, args \in Args :
         IF facade = "LoggingLogger"
         THEN LoggingLogger_start(msg, args)
         ELSE SpinningLogger_start(msg, args)
    /\ nsteps' = nsteps + 1
    /\ UNCHANGED <<ntmp, setups>>
    /\ UNCHANGED handlerVars

ok ==
    /\ nsteps < MaxSteps
    /\ \/ /\ facade = "LoggingLogger"
          /\ \E msg \in Msgs, args \in Args : LoggingLogger_ok("ok", msg, args)
       \/ /\ facade = "SpinningLogger"
          /\ \E append \in Appends :
               SpinningLogger_end("ok", "green", CheckMark, append)
    /\ nsteps' = nsteps + 1
    /\ UNCHANGED <<ntmp, setups>>
    /\ UNCHANGED handlerVars

\* LoggingLogger.skip is LoggingLogger.ok (skip = ok)
skip ==
    /\ nsteps < MaxSteps
    /\ \/ /\ facade = "LoggingLogger"
          /\ \E msg \in Msgs, args \in Args :
               LoggingLogger_ok("skip", msg, args)
       \/ /\ facade = "SpinningLogger"
          /\ \E append \in Appends :
               SpinningLogger_end("skip", "yellow", Dash, append)
    /\ nsteps' = nsteps + 1
    /\ UNCHANGED <<ntmp, setups>>
    /\ UNCHANGED handlerVars

fail ==
    /\ nsteps < MaxSteps
    /\ \/ /\ facade = "LoggingLogger"
          /\ \E msg \in Msgs, args \in Args : LoggingLogger_fail(msg, args)
       \/ /\ facade = "SpinningLogger"
          /\ \E append \in Appends :
               SpinningLogger_end("fail", "red", Cross, append)
    /\ nsteps' = nsteps + 1
    /\ UNCHANGED <<ntmp, setups>>
    /\ UNCHANGED handlerVars

----------------------------------------------------------------------------
(* The specifications. *)

Init == FacadeInit /\ HandlerInit

\* the facade and the setup function, called in any order
Next ==
    \/ setup_global_logger
    \/ debug
    \/ info
    \/ warning
    \/ error
    \/ start
    \/ ok
    \/ skip
    \/ fail

Spec == Init /\ [][Next]_vars

\* one ProgressConsoleHandler given records one after the other
HandlerNext == Emit

HandlerSpec == Init /\ [][HandlerNext]_vars

----------------------------------------------------------------------------
(* Properties of the facade (checked under Spec). *)

LeveledOps == {"debug", "info", "warning", "error"}

EndOps == {"ok", "skip", "fail"}

Prefix(cls) == IF cls = "SpinningLogger" THEN SpinningPrefix ELSE LoggingPrefix

\* the last call was given as many arguments as its message has conversion
\* specifiers
WellFormed == Placeholders(last.msg) = Len(last.args)

\* C1: on the LoggingLogger, _spinning is false after construction, true
\* after start and false after ok, skip and fail, so it is true exactly when
\* the last lifecycle operation was start; a leveled write leaves it as it
\* was.  (A lifecycle call is performed when it returns, which it does
\* whenever its arguments fit its message.)
C1_LoggingFlagFollowsLifecycle ==
    /\ logger.exists => (logger.spinning <=> (lgLife = "start"))
    /\ (last.cls = "LoggingLogger" /\ last.op \in LeveledOps)
          => logger.spinning = last.flag
    /\ (last.cls = "LoggingLogger" /\ last.op \in EndOps \cup {"start"}
          /\ WellFormed)
          => (last.outcome = "ok" /\ lgLife = last.op)

\* C1 witness: a leveled write made while the LoggingLogger shows progress
C1_Witness ==
    /\ last.cls = "LoggingLogger"
    /\ last.op \in LeveledOps
    /\ last.outcome = "ok"
    /\ lgLife = "start"
    /\ logger.spinning

\* C2: on the SpinningLogger, _spinning is true exactly when the last
\* lifecycle operation that returned was start.
C2_SpinnerFlagFollowsLifecycle ==
    (facade = "SpinningLogger") => (spinner.spinning <=> (spLife = "start"))

\* C3: a leveled write emits the backend's prefix followed by the message
\* when the flag is set, and the message alone when it is not.
C3_PrefixWhenSpinning ==
    (last.op \in LeveledOps /\ last.outcome = "ok")
      => last.text = (IF last.flag THEN <<Prefix(last.cls)>> ELSE <<>>)
                       \o Interpolate(last.msg, last.args)

\* the records of file p before the last call
Before(p) == IF p \in DOMAIN last.files THEN last.files[p] ELSE <<>>

\* the last call is one the facade takes: a leveled write or a start whose
\* arguments fit its message, or an ok, skip or fail of a spinner whose
\* text has no conversion specifier left in it
SpinnerCall ==
    /\ last.cls = "SpinningLogger"
    /\ last.op \in LeveledOps \cup EndOps \cup {"start"}
    /\ IF last.op \in EndOps THEN Placeholders(spinner.text) = 0
       ELSE WellFormed

\* one record was appended to the spinner's log file by the last call, and
\* nothing else changed in the file system
OneRecordAppended ==
    /\ DOMAIN files = DOMAIN last.files
    /\ \A p \in DOMAIN files \ {spinner.path} : files[p] = last.files[p]
    /\ Len(files[spinner.path]) = Len(last.files[spinner.path]) + 1
    /\ SubSeq(files[spinner.path], 1, Len(last.files[spinner.path]))
         = last.files[spinner.path]

\* the last record of the log file is the last line written on the terminal
\* by the last call
SameTextOnTerminal ==
    /\ Len(stdout) = Len(last.stdout) + 1
    /\ stdout[Len(stdout)] = files[spinner.path][Len(files[spinner.path])]

\* C4: every leveled and every lifecycle call on the SpinningLogger appends
\* exactly one record at the end of the log file (so the records are in the
\* order of the calls); the record of a leveled write is the text written
\* to the terminal.
C4_SpinnerMirrorsToFile ==
    SpinnerCall
      => /\ last.outcome = "ok"
         /\ OneRecordAppended
         /\ last.op \in LeveledOps => SameTextOnTerminal

\* what holds of the calls on the SpinningLogger that return
ReturningSpinnerCallsMirror ==
    (last.cls = "SpinningLogger" /\ last.outcome = "ok"
       /\ last.op \in LeveledOps \cup EndOps \cup {"start"})
      => /\ OneRecordAppended
         /\ last.op \in LeveledOps => SameTextOnTerminal

IsTemp(path) == \E n \in 1..8 : path = TempName(n)

HasFileHandler(lg, path) ==
    \E i \in DOMAIN lg.handlers : lg.handlers[i] = FileHandler(path)

SameSetups ==
    /\ Len(setups) >= 2
    /\ \A i \in DOMAIN setups : setups[i] = setups[1]
    /\ setups[1].log_file \notin {None, ""}

\* the tokens the last call wrote on the console: sys.stderr for the
\* LoggingLogger's handlers, the terminal for the SpinningLogger
ConsoleWritten ==
    IF last.cls = "SpinningLogger"
    THEN Len(stdout) - Len(last.stdout)
    ELSE Len(SelectSeq(SubSeq(stderr, Len(last.stderr) + 1, Len(stderr)),
                       LAMBDA t : t = CRLF))

\* C8: setup_global_logger called again with the same arguments leaves the
\* logger with the handlers it had, and a later message is written once to
\* the log file and once to the console.
C8_SetupIdempotent ==
    SameSetups
      => /\ last.op = "setup" => logger.handlers = last.handlers
         /\ (last.op \in LeveledOps /\ last.outcome = "ok")
              => /\ Len(files[setups[1].log_file])
                      = Len(Before(setups[1].log_file)) + 1
                 /\ ConsoleWritten = 1

\* C9: on the LoggingLogger a leveled write with as many arguments (one or
\* more) as the message has conversion specifiers logs the message with the
\* arguments merged in, after the prefix when the flag is set, and raises
\* no exception and no logging error.
C9_LeveledWithArgsSucceeds ==
    (/\ last.cls = "LoggingLogger"
     /\ last.op \in LeveledOps
     /\ Len(last.args) >= 1
     /\ Placeholders(last.msg) = Len(last.args))
      => /\ last.outcome = "ok"
         /\ last.text = (IF last.flag THEN <<LoggingPrefix>> ELSE <<>>)
                          \o Interpolate(last.msg, last.args)

----------------------------------------------------------------------------
(* Properties of ProgressConsoleHandler.emit (checked under HandlerSpec). *)

\* the last emit call wrote its record
Wrote == ~record.none /\ pre.wrote

\* what the last emit call put on the stream
Written == SubSeq(stream, Len(pre.stream) + 1, Len(stream))

\* the message of the last record, as written
RecordText == GetMessage(record).text

HasBreak(t) == \E i \in DOMAIN t : t[i] \in LineBreaks

AtLineStart(t) == t = <<>> \/ t[Len(t)] \in LineBreaks

NoEmptyLine(t) ==
    \A i \in DOMAIN t :
        t[i] \in LineBreaks => (i > 1 /\ t[i - 1] \notin LineBreaks)

\* the same_line attribute of the record written before the last one
PreviousMark == Len(marks) >= 2 /\ marks[Len(marks) - 1]

\* C5, as stated: a record without the marking is written with no line
\* break before or after it, and only a marked record causes a line break.
C5_UnmarkedStaysOnLine ==
    Wrote => /\ ~record.same_line => ~HasBreak(Written)
             /\ HasBreak(Written) => record.same_line

\* C5, amended: the marking (same_line) is what keeps the line.  A record
\* that carries it is written with no line break before or after it; a
\* record that does not is followed by a line break.
C5_MarkedStaysOnLine ==
    Wrote => /\ record.same_line => ~HasBreak(Written)
             /\ ~record.same_line
                  => (HasBreak(Written) /\ Written[Len(Written)] = CRLF)

\* C5 witness: a same_line record written after another one
C5_Witness ==
    /\ Wrote
    /\ record.same_line
    /\ pre.on_same_line
    /\ RecordText # <<>>

\* the parts of C7 that hold of every sequence of emit calls: on_same_line
\* is true exactly when the last record written carried same_line; a record
\* without it starts at the beginning of a line and is followed by a line
\* break; a line break is written before it only if the record written
\* before carried same_line
C7_Lines ==
    /\ on_same_line <=> (marks # <<>> /\ marks[Len(marks)])
    /\ (Wrote /\ ~record.same_line)
          => /\ Written[Len(Written)] = CRLF
             /\ AtLineStart(SubSeq(stream, 1,
                                    Len(stream) - 1 - Len(RecordText)))
             /\ Len(Written) > Len(RecordText) + 1 => PreviousMark

====
